---- MODULE Spec2Model ----
(***************************************************************************)
(* Model of sync_translate_node.py: the BabelfishArgs bundle built by      *)
(* SyncTranslateInputNode.package_args and the pipeline run by             *)
(* SyncTranslateNode.translate_video (download, extract audio, transcribe, *)
(* translate, synthesize, upload, submit lipsync job, poll, download the   *)
(* result, write metadata).  Every external call is one action; what the   *)
(* provider answers is drawn from a small set.                             *)
(***************************************************************************)
EXTENDS Integers, Sequences, FiniteSets, TLC

\* How many loop fetches the histories keep (older ones are dropped).
MaxFetch == 2

\* Worker threads of the host; the sequential specification runs the first.
Procs == {1, 2}
SeqProcs == {1}

-----------------------------------------------------------------------------
(* Values *)

\* Python's None where a string is expected.
NoneVal == "<None>"

\* A test against None only ("is not None").
TruthyNotNone(s) == s # NoneVal

\* Python truthiness of an Optional[str].
Truthy(s) == s \notin {NoneVal, ""}

\* A filesystem path: directory, stem (a tuple of the pieces an f-string
\* joins) and extension.  EmptyPath is "" (and None for an Optional[Path]);
\* both are falsy.
EmptyPath == [dir |-> "", stem |-> <<>>, ext |-> ""]
PathTruthy(p) == p # EmptyPath

\* str(path)
PathStr(p) == <<p.dir, "/">> \o p.stem \o <<p.ext>>

\* A URL: everything up to the last "/", then the last component.
NoUrl == [base |-> "", stem |-> <<>>, ext |-> ""]
SourceUrl == [base |-> "https://cdn/", stem |-> <<"clip">>, ext |-> ".mp4"]
OutputUrl == [base |-> "https://sync/", stem |-> <<"out">>, ext |-> ".mp4"]
AudioUrl == "https://uguu/f.mp3"

\* BabelfishArgs.tmp_dir default
TmpDir == "tmp/sync_translate"
JsonPath == [dir |-> "out", stem |-> <<"meta">>, ext |-> ".json"]

DefaultVoice == "21m00Tcm4TlvDq8ikWAM"

Terminal == {"COMPLETED", "FAILED"}
Statuses == {"PENDING", "PROCESSING", "COMPLETED", "FAILED"}
JobIds == {"job-1", "job-2"}
Suffixes == {"a1", "b2"}

\* The credentials a bundle carries (lipsync, transcription/translation,
\* speech synthesis): all present, none, one missing.
Credentials == {<<"sk", "ok", "ek">>, <<"", "", "">>, <<"sk", "", "ek">>}

\* What package_args is given.
PackageInputs ==
    {[video_url |-> v, target_language |-> t,
      sync_api_key |-> c[1], openai_api_key |-> c[2], eleven_api_key |-> c[3]] :
        v \in {NoUrl, SourceUrl}, t \in {"Spanish", "French"},
        c \in Credentials}

\* The job settings a caller picks from the node's two choice lists.
JobSettings == {<<"lipsync-2", "bounce">>, <<"lipsync-1.9.0-beta", "loop">>}

\* What translate_video is given besides the bundle.
Requests ==
    {[source_language |-> sl, output_json_path |-> j, voice_id |-> v,
      lipsync_model |-> js[1], sync_mode |-> js[2],
      segment_start |-> ss, segment_end |-> se] :
        sl \in {"", "English"}, j \in {EmptyPath, JsonPath},
        v \in {"", "v9"}, js \in JobSettings,
        ss \in {-1, 0}, se \in {-1, 5}}

NoArgs == [video_url |-> NoUrl, target_language |-> "", sync_api_key |-> "",
           openai_api_key |-> "", eleven_api_key |-> "",
           source_language |-> "", output_json_path |-> EmptyPath,
           lipsync_model |-> "", tts_model |-> "", gpt_model |-> "",
           transcription_model |-> "", voice_id |-> "", sync_mode |-> "",
           segment_start |-> -1, segment_end |-> -1, tmp_dir |-> ""]

NoRequest == [source_language |-> "", output_json_path |-> EmptyPath,
              voice_id |-> "", lipsync_model |-> "", sync_mode |-> "",
              segment_start |-> -1, segment_end |-> -1]

-----------------------------------------------------------------------------
(* Pure parts of the code *)

\* BabelfishArgs(...) as package_args builds it: the five given fields and
\* the dataclass defaults.
BabelfishArgs(i) ==
    [video_url |-> i.video_url, target_language |-> i.target_language,
     sync_api_key |-> i.sync_api_key, openai_api_key |-> i.openai_api_key,
     eleven_api_key |-> i.eleven_api_key,
     source_language |-> "", output_json_path |-> EmptyPath,
     lipsync_model |-> "lipsync-2", tts_model |-> "eleven_multilingual_v2",
     gpt_model |-> "gpt-3.5-turbo", transcription_model |-> "whisper-1",
     voice_id |-> "", sync_mode |-> "bounce",
     segment_start |-> -1, segment_end |-> -1, tmp_dir |-> TmpDir]

\* translate_video's assignments of its keyword arguments into the bundle.
AssignRequest(a, r) ==
    [a EXCEPT !.source_language = r.source_language,
              !.output_json_path = r.output_json_path,
              !.voice_id = r.voice_id,
              !.lipsync_model = r.lipsync_model,
              !.sync_mode = r.sync_mode,
              !.segment_start = r.segment_start,
              !.segment_end = r.segment_end]

\* A download that always names the file after the URL.
DownloadPathFromUrl(url, dest_dir, explicit_path) ==
    [dir |-> dest_dir, stem |-> url.stem, ext |-> url.ext]

\* _download: local_path = explicit_path or (dest_dir / Path(url).name)
DownloadPath(url, dest_dir, explicit_path) ==
    IF PathTruthy(explicit_path) THEN explicit_path
    ELSE [dir |-> dest_dir, stem |-> url.stem, ext |-> url.ext]

\* What requests.get / raise_for_status / the streamed write can do.
DownloadOutcomes(url) ==
    IF url = NoUrl THEN {"invalid_url"}
    ELSE {"ok", "connect_error", "http_error", "open_error", "stream_error"}

\* A download that creates the local file before it asks for the URL.
DownloadWritesAlways(o) == TRUE

\* Whether _download left a file (whole or partial) at local_path.
DownloadWrites(o) == o \in {"ok", "stream_error"}

\* _extract_audio: vid_path.with_suffix(".wav")
WavPath(vid_path) == [vid_path EXCEPT !.ext = ".wav"]

\* _tts: args.tmp_dir / audio_file_stem, called with extracted_wav.name
AudioPath(a, wav) == [dir |-> a.tmp_dir, stem |-> wav.stem, ext |-> wav.ext]

\* str.strip() on a text given as a tuple of words and blanks.
RECURSIVE LStrip(_)
LStrip(t) == IF t # <<>> /\ Head(t) = " " THEN LStrip(Tail(t)) ELSE t
RECURSIVE RStrip(_)
RStrip(t) ==
    IF t # <<>> /\ t[Len(t)] = " " THEN RStrip(SubSeq(t, 1, Len(t) - 1)) ELSE t
Strip(t) == RStrip(LStrip(t))

\* _tts: voice_id=args.voice_id or "21m00Tcm4TlvDq8ikWAM"
VoiceFor(a) == IF a.voice_id # "" THEN a.voice_id ELSE DefaultVoice

\* _tts: args.tmp_dir / f"gen_{uuid.uuid4().hex[:6]}.mp3"
Mp3Path(a, u) == [dir |-> a.tmp_dir, stem |-> <<"gen_", u>>, ext |-> ".mp3"]

\* Answers of the upload host (or the failure before one arrives).
NoFiles == <<>>
UploadFiles ==
    {NoFiles, <<[has_url |-> FALSE, url |-> NoneVal]>>}
    \cup {<<[has_url |-> TRUE, url |-> u]>> : u \in {NoneVal, "", AudioUrl}}
UploadResponses ==
    [kind : {"open_error", "transport_error", "not_json"},
     has_success : {FALSE}, success : {FALSE}, has_files : {FALSE},
     files : {NoFiles}]
    \cup [kind : {"json"}, has_success : BOOLEAN, success : BOOLEAN,
          has_files : BOOLEAN, files : UploadFiles]

\* An upload that takes the first file's URL without looking at the success
\* flag.
UploadToUguuUnchecked(resp) ==
    IF resp.kind # "json" THEN NoneVal
    ELSE IF resp.has_files /\ Len(resp.files) > 0
         THEN IF resp.files[1].has_url THEN resp.files[1].url ELSE NoneVal
         ELSE NoneVal

\* _upload_to_uguu: the URL, or None on any failure.
UploadToUguu(resp) ==
    IF resp.kind # "json" THEN NoneVal
    ELSE IF resp.has_success /\ resp.success /\ resp.has_files
            /\ Len(resp.files) > 0
         THEN IF resp.files[1].has_url THEN resp.files[1].url ELSE NoneVal
         ELSE NoneVal

\* A submission that sends an unset bound (-1) as 0.
SubmitRequestZeroed(a, aud_url) ==
    [video_url |-> a.video_url,
     segments_secs |->
         <<<<IF a.segment_start = -1 THEN 0 ELSE a.segment_start,
             IF a.segment_end = -1 THEN 0 ELSE a.segment_end>>>>,
     audio_url |-> aud_url,
     model |-> a.lipsync_model,
     sync_mode |-> a.sync_mode,
     api_key |-> a.sync_api_key]

\* The arguments of client.create.
SubmitRequest(a, aud_url) ==
    [video_url |-> a.video_url,
     segments_secs |-> <<<<a.segment_start, a.segment_end>>>>,
     audio_url |-> aud_url,
     model |-> a.lipsync_model,
     sync_mode |-> a.sync_mode,
     api_key |-> a.sync_api_key]

\* A loop that goes on only for the statuses it knows as pending.
LoopContinuesKnownPending(status) == status \in {NoneVal, "PENDING"}

\* while status not in ["COMPLETED", "FAILED"]
LoopContinues(status) == status \notin Terminal

\* Messages that leave out a part.
SyncErrorMessageNoBody(status_code, body) == <<"Sync error - ", status_code>>
JobFailedMessageNoId(job_id, status) == <<"Lipsync job failed: ", status>>

\* The three strings translate_video returns on failure, each f-string as
\* the tuple of its literal and formatted pieces (the dash of "Sync error"
\* is written "-").
UploadFailedMessage == <<"Generated speech upload failed">>
SyncErrorMessage(status_code, body) ==
    <<"Sync error - ", status_code, ": ", body>>
JobFailedMessage(job_id, status) ==
    <<"Lipsync job ", job_id, " failed: ", status>>

\* outfile: next to the JSON if a path is given, else in tmp_dir.
OutFileInTmp(a, u) ==
    [dir |-> a.tmp_dir, stem |-> <<"translated_", u>>, ext |-> ".mp4"]

OutFile(a, u) ==
    [dir |-> IF PathTruthy(a.output_json_path) THEN a.output_json_path.dir
             ELSE a.tmp_dir,
     stem |-> <<"translated_", u>>, ext |-> ".mp4"]

\* A worker that writes the metadata whether or not a path was given.
WantsMetadataAlways(a) == TRUE

\* if args.output_json_path: (the test before the metadata write)
WantsMetadata(a) == PathTruthy(a.output_json_path)

\* Metadata that records the voice used for synthesis, not the one asked for.
MetadataVoiceUsed(a, translated_text, outfile, job_id, now) ==
    [input_video_url |-> a.video_url,
     translated_text |-> translated_text,
     target_language |-> a.target_language,
     source_language |-> a.source_language,
     output_video_path |-> PathStr(outfile),
     voice_id |-> VoiceFor(a),
     lipsync_model |-> a.lipsync_model,
     sync_mode |-> a.sync_mode,
     job_id |-> job_id,
     timestamp |-> now]

\* The metadata dictionary.
Metadata(a, translated_text, outfile, job_id, now) ==
    [input_video_url |-> a.video_url,
     translated_text |-> translated_text,
     target_language |-> a.target_language,
     source_language |-> a.source_language,
     output_video_path |-> PathStr(outfile),
     voice_id |-> a.voice_id,
     lipsync_model |-> a.lipsync_model,
     sync_mode |-> a.sync_mode,
     job_id |-> job_id,
     timestamp |-> now]

-----------------------------------------------------------------------------
(* State *)

VARIABLES
    pc,              \* where each thread is in package_args / translate_video
    args,            \* the BabelfishArgs object each thread holds
    req,             \* translate_video's keyword arguments of this invocation
    run,             \* translate_video's local variables
    result,          \* how the invocation ended and what it returned
    ops,             \* history: the external operations started, in order
    polled,          \* history: the last MaxFetch statuses the loop fetched
    written,         \* history: the files this invocation created
    metadata,        \* history: the metadata files written, in order
    sent,            \* history: the job submissions made, in order
    clip_open,       \* whether _extract_audio's VideoFileClip is still open
    openai_api_key,  \* the module global openai.api_key
    answers,         \* history: what the outside answered to this invocation
    writes           \* history: the assignments to each local variable

vars == <<pc, args, req, run, result, ops, polled, written, metadata, sent,
          clip_open, openai_api_key, answers, writes>>

NoRun == [local_vid |-> EmptyPath, extracted_wav |-> EmptyPath,
          audio_path |-> EmptyPath, transcription |-> <<>>,
          translated_text |-> <<>>, generated_audio_mp3 |-> EmptyPath,
          aud_url |-> NoneVal, job_id |-> NoneVal, status |-> NoneVal,
          output_url |-> NoUrl, outfile |-> EmptyPath]

NoResult == [kind |-> "none", value |-> <<>>, ui |-> <<>>]

\* What the fetch after the loop may report as the job's status: the job
\* service is free to report the terminal status again or a different one.
OutputStatuses == {"COMPLETED", "PROCESSING"}

\* Nothing answered yet: no source download, no upload, no output fetch.
NoResponse == [kind |-> "none", has_success |-> FALSE, success |-> FALSE,
               has_files |-> FALSE, files |-> NoFiles]
NoAnswers == [download |-> "none", upload |-> NoResponse,
              output_status |-> NoneVal]

\* No local variable assigned yet: per variable, how often (counted up to
\* MaxFetch + 1) and by which steps.
NoWrites == [f \in DOMAIN NoRun |-> [n |-> 0, by |-> {}]]

Init ==
    /\ pc = [p \in Procs |-> "none"]
    /\ args = [p \in Procs |-> NoArgs]
    /\ req = [p \in Procs |-> NoRequest]
    /\ run = [p \in Procs |-> NoRun]
    /\ result = [p \in Procs |-> NoResult]
    /\ ops = [p \in Procs |-> <<>>]
    /\ polled = [p \in Procs |-> <<>>]
    /\ written = [p \in Procs |-> {}]
    /\ metadata = [p \in Procs |-> <<>>]
    /\ sent = [p \in Procs |-> <<>>]
    /\ clip_open = [p \in Procs |-> FALSE]
    /\ openai_api_key = ""
    /\ answers = [p \in Procs |-> NoAnswers]
    /\ writes = [p \in Procs |-> NoWrites]

-----------------------------------------------------------------------------
(* Helpers of the actions *)

Op(name, key) == [op |-> name, key |-> key]

Count(s, name) == Cardinality({i \in 1..Len(s) : s[i].op = name})

\* The history of operations with one more; of the loop's fetches only the
\* first MaxFetch are kept.
Record(s, e) ==
    IF e.op = "fetch" /\ Count(s, "fetch") >= MaxFetch THEN s
    ELSE Append(s, e)

\* The last MaxFetch statuses with one more.
Window(s, st) ==
    IF Len(s) < MaxFetch THEN Append(s, st) ELSE Append(Tail(s), st)

\* The assignments with one more to each of the given variables by a step.
Wrote(w, fields, step) ==
    [f \in DOMAIN w |->
        IF f \in fields
        THEN [n |-> IF w[f].n <= MaxFetch THEN w[f].n + 1 ELSE w[f].n,
              by |-> w[f].by \cup {step}]
        ELSE w[f]]

\* An exception leaves translate_video; stage names the call that raised.
Raised(stage) == [kind |-> "raised", value |-> <<stage>>, ui |-> <<>>]

\* return {"ui": {"texts": []}, "result": (message,)}
Failure(message) ==
    [kind |-> "returned", value |-> message, ui |-> <<"texts">>]

\* return {"ui": {"videos": [{"filename": outfile.name, ...}]},
\*         "result": (str(outfile),)}
Success(outfile) ==
    [kind |-> "returned", value |-> PathStr(outfile),
     ui |-> <<"videos">> \o outfile.stem \o <<outfile.ext>>]

\* A worker that never polls: the job is taken as finished once submitted.
AfterStatusNoPoll(status) ==
    IF status = NoneVal THEN "download_result"
    ELSE IF status \notin Terminal THEN "sleep"
    ELSE IF status # "COMPLETED" THEN "done"
    ELSE "get_output"

\* A loop that waits for COMPLETED alone.
AfterStatusCompletedOnly(status) ==
    IF status # "COMPLETED" THEN "sleep" ELSE "get_output"

\* A worker that submits the job again when it failed.
AfterStatusResubmits(status) ==
    IF LoopContinues(status) THEN "sleep"
    ELSE IF status # "COMPLETED" THEN "submit"
    ELSE "get_output"

\* A worker that downloads the result once the loop saw COMPLETED, without
\* fetching the job for its output URL.
AfterStatusSkipsOutput(status) ==
    IF LoopContinues(status) THEN "sleep"
    ELSE IF status # "COMPLETED" THEN "done"
    ELSE "download_result"

\* Where control goes once status holds a value: the while test, then the
\* test of status != "COMPLETED".
AfterStatus(status) ==
    IF LoopContinues(status) THEN "sleep"
    ELSE IF status # "COMPLETED" THEN "done"
    ELSE "get_output"

\* What the providers can answer.
Transcripts == {<<"hello">>}
Completions == {<<" ", "hola", " ", "amigo", " ">>, <<"hola", " ", "amigo">>}
ApiErrors == {<<"401", "unauthorized">>, <<"422", "bad segment">>}
Now == "2026-01-01T00:00:00"

-----------------------------------------------------------------------------
(* Actions *)

\* SyncTranslateInputNode.package_args
Package(p, i) ==
    /\ pc[p] \in {"none", "idle"}
    /\ args' = [args EXCEPT ![p] = BabelfishArgs(i)]
    /\ pc' = [pc EXCEPT ![p] = "idle"]
    /\ UNCHANGED <<req, run, result, ops, polled, written, metadata, sent,
                   clip_open, openai_api_key, answers, writes>>

\* translate_video up to the first download: the assignments into the
\* bundle and tmp_dir.mkdir.
Invoke(p, r) ==
    /\ pc[p] = "idle"
    /\ req' = [req EXCEPT ![p] = r]
    /\ args' = [args EXCEPT ![p] = AssignRequest(args[p], r)]
    /\ \E ok \in BOOLEAN :
         IF ok
         THEN /\ pc' = [pc EXCEPT ![p] = "download"]
              /\ result' = result
         ELSE /\ pc' = [pc EXCEPT ![p] = "raised"]
              /\ result' = [result EXCEPT ![p] = Raised("mkdir")]
    /\ UNCHANGED <<run, ops, polled, written, metadata, sent, clip_open,
                   openai_api_key, answers, writes>>

\* local_vid = Path(self._download(args.video_url, args.tmp_dir))
Download(p) ==
    /\ pc[p] = "download"
    /\ ops' = [ops EXCEPT ![p] = Record(@, Op("download", ""))]
    /\ LET path == DownloadPath(args[p].video_url, args[p].tmp_dir, EmptyPath)
       IN \E o \in DownloadOutcomes(args[p].video_url) :
            /\ answers' = [answers EXCEPT ![p].download = o]
            /\ written' = [written EXCEPT ![p] =
                              IF DownloadWrites(o) THEN @ \cup {path} ELSE @]
            /\ IF o = "ok"
               THEN /\ run' = [run EXCEPT ![p].local_vid = path]
                    /\ pc' = [pc EXCEPT ![p] = "extract"]
                    /\ result' = result
               ELSE /\ run' = run
                    /\ pc' = [pc EXCEPT ![p] = "raised"]
                    /\ result' = [result EXCEPT ![p] = Raised("download")]
    /\ writes' = [writes EXCEPT ![p] =
                      IF pc'[p] # "raised"
                      THEN Wrote(@, {"local_vid"}, "download") ELSE @]
    /\ UNCHANGED <<args, req, polled, metadata, sent, clip_open,
                   openai_api_key>>

\* extracted_wav = self._extract_audio(local_vid)
ExtractAudio(p) ==
    /\ pc[p] = "extract"
    /\ ops' = [ops EXCEPT ![p] = Record(@, Op("extract", ""))]
    /\ LET wav_path == WavPath(run[p].local_vid)
       IN \E o \in {"ok", "open_error", "no_audio", "write_error"} :
            \* VideoFileClip(...) raising opens nothing; clip.close() is
            \* reached only when write_audiofile returns
            /\ clip_open' = [clip_open EXCEPT ![p] =
                                o \in {"no_audio", "write_error"}]
            /\ written' = [written EXCEPT ![p] =
                              IF o \in {"ok", "write_error"}
                              THEN @ \cup {wav_path} ELSE @]
            /\ IF o = "ok"
               THEN /\ run' = [run EXCEPT ![p].extracted_wav = wav_path]
                    /\ pc' = [pc EXCEPT ![p] = "tts"]
                    /\ result' = result
               ELSE /\ run' = run
                    /\ pc' = [pc EXCEPT ![p] = "raised"]
                    /\ result' = [result EXCEPT ![p] = Raised("extract")]
    /\ writes' = [writes EXCEPT ![p] =
                      IF pc'[p] # "raised"
                      THEN Wrote(@, {"extracted_wav"}, "extract") ELSE @]
    /\ UNCHANGED <<args, req, polled, metadata, sent, openai_api_key, answers>>

\* _tts: openai.api_key = args.openai_api_key; audio_path = ...
TtsBegin(p) ==
    /\ pc[p] = "tts"
    /\ openai_api_key' = args[p].openai_api_key
    /\ run' = [run EXCEPT ![p].audio_path =
                   AudioPath(args[p], run[p].extracted_wav)]
    /\ pc' = [pc EXCEPT ![p] = "transcribe"]
    /\ writes' = [writes EXCEPT ![p] =
                      IF pc'[p] # "raised"
                      THEN Wrote(@, {"audio_path"}, "tts") ELSE @]
    /\ UNCHANGED <<args, req, result, ops, polled, written, metadata, sent,
                   clip_open, answers>>

\* _tts: openai.audio.transcriptions.create(...).text
Transcribe(p) ==
    /\ pc[p] = "transcribe"
    /\ ops' = [ops EXCEPT ![p] = Record(@, Op("transcribe", openai_api_key))]
    /\ \/ \E t \in Transcripts :
            /\ run' = [run EXCEPT ![p].transcription = t]
            /\ pc' = [pc EXCEPT ![p] = "translate"]
            /\ result' = result
       \/ /\ run' = run
          /\ pc' = [pc EXCEPT ![p] = "raised"]
          /\ result' = [result EXCEPT ![p] = Raised("transcribe")]
    /\ writes' = [writes EXCEPT ![p] =
                      IF pc'[p] # "raised"
                      THEN Wrote(@, {"transcription"}, "transcribe") ELSE @]
    /\ UNCHANGED <<args, req, polled, written, metadata, sent, clip_open,
                   openai_api_key, answers>>

\* _tts: openai.chat.completions.create(...).choices[0].message.content.strip()
Translate(p) ==
    /\ pc[p] = "translate"
    /\ ops' = [ops EXCEPT ![p] = Record(@, Op("translate", openai_api_key))]
    /\ \/ \E c \in Completions :
            /\ run' = [run EXCEPT ![p].translated_text = Strip(c)]
            /\ pc' = [pc EXCEPT ![p] = "synthesize"]
            /\ result' = result
       \/ /\ run' = run
          /\ pc' = [pc EXCEPT ![p] = "raised"]
          /\ result' = [result EXCEPT ![p] = Raised("translate")]
    /\ writes' = [writes EXCEPT ![p] =
                      IF pc'[p] # "raised"
                      THEN Wrote(@, {"translated_text"}, "translate") ELSE @]
    /\ UNCHANGED <<args, req, polled, written, metadata, sent, clip_open,
                   openai_api_key, answers>>

\* _tts: ElevenLabs(...).text_to_speech.convert(...) written to mp3_path
Synthesize(p) ==
    /\ pc[p] = "synthesize"
    /\ ops' = [ops EXCEPT ![p] =
                   Record(@, Op("synthesize", args[p].eleven_api_key))]
    /\ \E u \in Suffixes :
         LET mp3_path == Mp3Path(args[p], u)
         IN \/ /\ run' = [run EXCEPT ![p].generated_audio_mp3 = mp3_path]
               /\ written' = [written EXCEPT ![p] = @ \cup {mp3_path}]
               /\ pc' = [pc EXCEPT ![p] = "upload"]
               /\ result' = result
            \/ /\ run' = run
               /\ written' = written
               /\ pc' = [pc EXCEPT ![p] = "raised"]
               /\ result' = [result EXCEPT ![p] = Raised("synthesize")]
    /\ writes' = [writes EXCEPT ![p] =
                      IF pc'[p] # "raised"
                      THEN Wrote(@, {"generated_audio_mp3"}, "synthesize")
                      ELSE @]
    /\ UNCHANGED <<args, req, polled, metadata, sent, clip_open,
                   openai_api_key, answers>>

\* aud_url = self._upload_to_uguu(generated_audio_mp3); if not aud_url: return
Upload(p) ==
    /\ pc[p] = "upload"
    /\ ops' = [ops EXCEPT ![p] = Record(@, Op("upload", ""))]
    /\ \E resp \in UploadResponses :
         LET aud_url == UploadToUguu(resp)
         IN /\ answers' = [answers EXCEPT ![p].upload = resp]
            /\ run' = [run EXCEPT ![p].aud_url = aud_url]
            /\ IF ~Truthy(aud_url)
               THEN /\ pc' = [pc EXCEPT ![p] = "done"]
                    /\ result' = [result EXCEPT ![p] =
                                     Failure(UploadFailedMessage)]
               ELSE /\ pc' = [pc EXCEPT ![p] = "submit"]
                    /\ result' = result
    /\ writes' = [writes EXCEPT ![p] =
                      Wrote(@, {"aud_url"}, "upload")]
    /\ UNCHANGED <<args, req, polled, written, metadata, sent, clip_open,
                   openai_api_key>>

\* client = Sync(api_key=...).generations; res = client.create(...);
\* job_id = res.id; status = None; the first while test.  The history keeps
\* each request with the provider's reply.
Submit(p) ==
    /\ pc[p] = "submit"
    /\ ops' = [ops EXCEPT ![p] = Record(@, Op("submit", args[p].sync_api_key))]
    /\ LET request == SubmitRequest(args[p], run[p].aud_url)
       IN \/ \E id \in JobIds :
               /\ sent' = [sent EXCEPT ![p] =
                    Append(@, [request |-> request, reply |-> <<"ok", id>>])]
               /\ run' = [run EXCEPT ![p].job_id = id, ![p].status = NoneVal]
               /\ pc' = [pc EXCEPT ![p] = AfterStatus(NoneVal)]
               /\ result' = result
          \/ \E e \in ApiErrors :
               /\ sent' = [sent EXCEPT ![p] =
                    Append(@, [request |-> request,
                               reply |-> <<"api_error", e[1], e[2]>>])]
               /\ run' = run
               /\ pc' = [pc EXCEPT ![p] = "done"]
               /\ result' = [result EXCEPT ![p] =
                                Failure(SyncErrorMessage(e[1], e[2]))]
          \/ /\ sent' = [sent EXCEPT ![p] =
                    Append(@, [request |-> request,
                               reply |-> <<"transport_error">>])]
             /\ run' = run
             /\ pc' = [pc EXCEPT ![p] = "raised"]
             /\ result' = [result EXCEPT ![p] = Raised("submit")]
    /\ writes' = [writes EXCEPT ![p] =
                      IF sent'[p][Len(sent'[p])].reply[1] = "ok"
                      THEN Wrote(@, {"job_id", "status"}, "submit") ELSE @]
    /\ UNCHANGED <<args, req, polled, written, metadata, clip_open,
                   openai_api_key, answers>>

\* time.sleep(args.poll_interval)
Sleep(p) ==
    /\ pc[p] = "sleep"
    /\ pc' = [pc EXCEPT ![p] = "fetch"]
    /\ UNCHANGED <<args, req, run, result, ops, polled, written, metadata,
                   sent, clip_open, openai_api_key, answers, writes>>

\* status = client.get(job_id).status; the while test; if status !=
\* "COMPLETED": return
Fetch(p) ==
    /\ pc[p] = "fetch"
    /\ ops' = [ops EXCEPT ![p] = Record(@, Op("fetch", args[p].sync_api_key))]
    /\ \/ \E st \in Statuses :
            /\ run' = [run EXCEPT ![p].status = st]
            /\ polled' = [polled EXCEPT ![p] = Window(@, st)]
            /\ pc' = [pc EXCEPT ![p] = AfterStatus(st)]
            /\ result' = [result EXCEPT ![p] =
                             IF AfterStatus(st) = "done"
                             THEN Failure(JobFailedMessage(run[p].job_id, st))
                             ELSE @]
       \/ /\ run' = run
          /\ polled' = polled
          /\ pc' = [pc EXCEPT ![p] = "raised"]
          /\ result' = [result EXCEPT ![p] = Raised("fetch")]
    /\ writes' = [writes EXCEPT ![p] =
                      IF pc'[p] # "raised"
                      THEN Wrote(@, {"status"}, "fetch") ELSE @]
    /\ UNCHANGED <<args, req, written, metadata, sent, clip_open,
                   openai_api_key, answers>>

\* output_url = client.get(job_id).output_url; outfile = ... (with
\* json_dir.mkdir when a metadata path is given)
GetOutput(p) ==
    /\ pc[p] = "get_output"
    /\ ops' = [ops EXCEPT ![p] =
                   Record(@, Op("get_output", args[p].sync_api_key))]
    /\ \/ \E url \in {NoUrl, OutputUrl}, u \in Suffixes, st \in OutputStatuses :
            /\ answers' = [answers EXCEPT ![p].output_status = st]
            /\ run' = [run EXCEPT ![p].output_url = url,
                                  ![p].outfile = OutFile(args[p], u)]
            /\ writes' = [writes EXCEPT ![p] =
                              Wrote(@, {"output_url", "outfile"}, "get_output")]
            /\ pc' = [pc EXCEPT ![p] = "download_result"]
            /\ result' = result
       \/ /\ run' = run
          /\ pc' = [pc EXCEPT ![p] = "raised"]
          /\ result' = [result EXCEPT ![p] = Raised("get_output")]
          /\ UNCHANGED <<answers, writes>>
       \/ /\ WantsMetadata(args[p])
          /\ \E url \in {NoUrl, OutputUrl}, st \in OutputStatuses :
               /\ answers' = [answers EXCEPT ![p].output_status = st]
               /\ run' = [run EXCEPT ![p].output_url = url]
          /\ writes' = [writes EXCEPT ![p] =
                            Wrote(@, {"output_url"}, "get_output")]
          /\ pc' = [pc EXCEPT ![p] = "raised"]
          /\ result' = [result EXCEPT ![p] = Raised("mkdir")]
    /\ UNCHANGED <<args, req, polled, written, metadata, sent, clip_open,
                   openai_api_key>>

\* self._download(output_url, args.tmp_dir, outfile); without a metadata
\* path, the final return
DownloadResult(p) ==
    /\ pc[p] = "download_result"
    /\ ops' = [ops EXCEPT ![p] = Record(@, Op("download_result", ""))]
    /\ LET path == DownloadPath(run[p].output_url, args[p].tmp_dir,
                                run[p].outfile)
       IN \E o \in DownloadOutcomes(run[p].output_url) :
            /\ written' = [written EXCEPT ![p] =
                              IF DownloadWrites(o) THEN @ \cup {path} ELSE @]
            /\ IF o # "ok"
               THEN /\ pc' = [pc EXCEPT ![p] = "raised"]
                    /\ result' = [result EXCEPT ![p] =
                                     Raised("download_result")]
               ELSE IF WantsMetadata(args[p])
               THEN /\ pc' = [pc EXCEPT ![p] = "write_metadata"]
                    /\ result' = result
               ELSE /\ pc' = [pc EXCEPT ![p] = "done"]
                    /\ result' = [result EXCEPT ![p] = Success(run[p].outfile)]
    /\ UNCHANGED <<args, req, run, polled, metadata, sent, clip_open,
                   openai_api_key, answers, writes>>

\* with open(args.output_json_path, "w") as f: json.dump(metadata, f);
\* the final return
WriteMetadata(p) ==
    /\ pc[p] = "write_metadata"
    /\ ops' = [ops EXCEPT ![p] = Record(@, Op("write_metadata", ""))]
    /\ \/ /\ metadata' = [metadata EXCEPT ![p] =
                Append(@, [path |-> args[p].output_json_path,
                           content |-> Metadata(args[p],
                                                run[p].translated_text,
                                                run[p].outfile,
                                                run[p].job_id, Now)])]
          /\ written' = [written EXCEPT ![p] =
                            @ \cup {args[p].output_json_path}]
          /\ pc' = [pc EXCEPT ![p] = "done"]
          /\ result' = [result EXCEPT ![p] = Success(run[p].outfile)]
       \/ /\ metadata' = metadata
          /\ written' = written
          /\ pc' = [pc EXCEPT ![p] = "raised"]
          /\ result' = [result EXCEPT ![p] = Raised("write_metadata")]
    /\ UNCHANGED <<args, req, run, polled, sent, clip_open, openai_api_key,
                   answers, writes>>

\* The caller has the result (or the exception); the frame is gone and the
\* bundle stays with the host.
Finish(p) ==
    /\ pc[p] \in {"done", "raised"}
    /\ pc' = [pc EXCEPT ![p] = "idle"]
    /\ req' = [req EXCEPT ![p] = NoRequest]
    /\ run' = [run EXCEPT ![p] = NoRun]
    /\ result' = [result EXCEPT ![p] = NoResult]
    /\ ops' = [ops EXCEPT ![p] = <<>>]
    /\ polled' = [polled EXCEPT ![p] = <<>>]
    /\ written' = [written EXCEPT ![p] = {}]
    /\ metadata' = [metadata EXCEPT ![p] = <<>>]
    /\ sent' = [sent EXCEPT ![p] = <<>>]
    /\ clip_open' = [clip_open EXCEPT ![p] = FALSE]
    /\ answers' = [answers EXCEPT ![p] = NoAnswers]
    /\ writes' = [writes EXCEPT ![p] = NoWrites]
    /\ UNCHANGED <<args, openai_api_key>>

\* The host: it builds a bundle and calls the worker node with it.
Host(p, inputs, requests) ==
    \/ \E i \in inputs : Package(p, i)
    \/ \E r \in requests : Invoke(p, r)

\* One invocation of translate_video, call by call.
Pipeline(p) ==
    \/ Download(p)
    \/ ExtractAudio(p)
    \/ TtsBegin(p)
    \/ Transcribe(p)
    \/ Translate(p)
    \/ Synthesize(p)
    \/ Upload(p)
    \/ Submit(p)
    \/ Sleep(p)
    \/ Fetch(p)
    \/ GetOutput(p)
    \/ DownloadResult(p)
    \/ WriteMetadata(p)
    \/ Finish(p)

Next == \E p \in SeqProcs : Host(p, PackageInputs, Requests) \/ Pipeline(p)

Spec == Init /\ [][Next]_vars

\* One bundle and two requests (with and without a metadata path), for the
\* properties of whole behaviours.  Every call of a running invocation
\* returns or raises, so the thread keeps taking its next step.
LivePackageInputs ==
    {[video_url |-> SourceUrl, target_language |-> "Spanish",
      sync_api_key |-> "sk", openai_api_key |-> "ok", eleven_api_key |-> "ek"]}
LiveRequests ==
    {[NoRequest EXCEPT !.lipsync_model = "lipsync-2", !.sync_mode = "bounce",
                       !.output_json_path = j] : j \in {EmptyPath, JsonPath}}

NextLive ==
    \E p \in SeqProcs : Host(p, LivePackageInputs, LiveRequests) \/ Pipeline(p)

SpecLive ==
    Init /\ [][NextLive]_vars /\ \A p \in SeqProcs : WF_vars(Pipeline(p))

\* Two invocations in one process, each on its own thread with its own
\* bundle: the same video URL and temp directory, different credentials.
\* The threads' calls interleave in any order.
ConcCredentials == <<<<"sk", "ok", "ek">>, <<"sk-b", "ok-b", "ek-b">>>>
ConcPackageInputs(p) ==
    {[video_url |-> SourceUrl, target_language |-> "Spanish",
      sync_api_key |-> ConcCredentials[p][1],
      openai_api_key |-> ConcCredentials[p][2],
      eleven_api_key |-> ConcCredentials[p][3]]}
ConcRequests ==
    {[NoRequest EXCEPT !.lipsync_model = "lipsync-2", !.sync_mode = "bounce",
                       !.output_json_path = JsonPath]}

NextConc ==
    \E p \in Procs :
        Host(p, ConcPackageInputs(p), ConcRequests) \/ Pipeline(p)

SpecConc == Init /\ [][NextConc]_vars

-----------------------------------------------------------------------------
(* Vocabulary of the properties *)

Ended(p) == pc[p] \in {"done", "raised"}
Returned(p) == pc[p] = "done"
Started(p, name) == Count(ops[p], name) > 0
Elems(t) == {t[i] : i \in 1..Len(t)}

\* The stages in their fixed order.  Both client.get calls (the loop's and
\* the one that reads output_url) are status fetches.
StageOrder ==
    <<"download", "extract", "transcribe", "translate", "synthesize",
      "upload", "submit", "fetch", "download_result", "write_metadata">>
StageOf(name) == IF name = "get_output" THEN "fetch" ELSE name
StageIndex(name) ==
    CHOOSE i \in 1..Len(StageOrder) : StageOrder[i] = StageOf(name)

\* The stage has run to its end and left its product.
Completed(p, stage) ==
    CASE stage = "download" ->
           /\ PathTruthy(run[p].local_vid)
           /\ run[p].local_vid \in written[p]
      [] stage = "extract" ->
           /\ PathTruthy(run[p].extracted_wav)
           /\ run[p].extracted_wav \in written[p]
      [] stage = "transcribe" -> run[p].transcription \in Transcripts
      [] stage = "translate" -> run[p].translated_text # <<>>
      [] stage = "synthesize" -> run[p].generated_audio_mp3 \in written[p]
      [] stage = "upload" -> Truthy(run[p].aud_url)
      [] stage = "submit" ->
           /\ Len(sent[p]) = 1
           /\ sent[p][1].reply = <<"ok", run[p].job_id>>
      [] stage = "fetch" -> run[p].status = "COMPLETED"
      [] stage = "download_result" -> run[p].outfile \in written[p]
      [] OTHER -> FALSE

\* C1: the operations an invocation has started, in order, are a prefix of
\* download, extract, transcribe, translate, synthesize, upload, submit,
\* status fetches, download result, write metadata: the first is the source
\* download, each next one is the stage after the previous one (or one more
\* status fetch), a stage starts only once the stage before it has completed,
\* and only the status fetch occurs more than once.
C1_LinearOrder ==
    \A p \in Procs :
      LET s == ops[p] IN
        /\ s # <<>> => s[1].op = "download"
        /\ \A i \in 1..(Len(s) - 1) :
             \/ StageIndex(s[i + 1].op) = StageIndex(s[i].op) + 1
             \/ StageOf(s[i].op) = "fetch" /\ StageOf(s[i + 1].op) = "fetch"
        /\ \A i \in 2..Len(s) :
             StageOf(s[i].op) # StageOf(s[i - 1].op)
               => Completed(p, StageOrder[StageIndex(s[i].op) - 1])
        /\ \A name \in Elems(StageOrder) \ {"fetch"} : Count(s, name) <= 1

C1_Witness ==
    \E p \in Procs :
      /\ Returned(p)
      /\ Len(ops[p]) >= 11
      /\ ops[p][Len(ops[p])].op = "write_metadata"
      /\ Count(ops[p], "fetch") = 2

\* The operations that follow the upload.
AfterUpload == {"submit", "fetch", "get_output", "download_result",
                "write_metadata"}
\* The operations that follow the job submission.
AfterSubmit == AfterUpload \ {"submit"}

\* C2: when the upload has yielded no URL (None or an empty string), the
\* invocation has returned the string "Generated speech upload failed" and
\* has made no job submission, no status fetch, no result download and no
\* metadata write.
C2_UploadFailureShortCircuits ==
    \A p \in Procs :
      (Started(p, "upload") /\ run[p].aud_url \in {NoneVal, ""})
        => /\ Returned(p)
           /\ result[p].kind = "returned"
           /\ result[p].value = <<"Generated speech upload failed">>
           /\ \A name \in AfterUpload : ~Started(p, name)
           /\ sent[p] = <<>>
           /\ metadata[p] = <<>>

C2_Witness ==
    \E p \in Procs :
      /\ Started(p, "upload")
      /\ run[p].aud_url = ""
      /\ Returned(p)
      /\ WantsMetadata(args[p])

\* C3: when the loop has fetched the status FAILED, the invocation has
\* returned a string that contains the job id and the word FAILED, has not
\* downloaded a result and has written no metadata file, whether or not a
\* metadata path was given.
C3_JobFailureReported ==
    \A p \in Procs :
      run[p].status = "FAILED"
        => /\ Returned(p)
           /\ result[p].kind = "returned"
           /\ run[p].job_id \in JobIds
           /\ run[p].job_id \in Elems(result[p].value)
           /\ "FAILED" \in Elems(result[p].value)
           /\ ~Started(p, "get_output")
           /\ ~Started(p, "download_result")
           /\ ~Started(p, "write_metadata")
           /\ metadata[p] = <<>>
           /\ args[p].output_json_path \notin written[p]

C3_Witness ==
    \E p \in Procs :
      /\ run[p].status = "FAILED"
      /\ Returned(p)
      /\ req[p].output_json_path = JsonPath
      /\ Len(polled[p]) = 2

\* C4: when the provider has answered the job creation with an ApiError, the
\* invocation has returned a string that carries the error's status code and
\* body, has submitted exactly once, and has made no status fetch, no result
\* download and no metadata write.
C4_SubmissionErrorReported ==
    \A p \in Procs :
      \A i \in 1..Len(sent[p]) :
        sent[p][i].reply[1] = "api_error"
          => /\ Returned(p)
             /\ result[p].kind = "returned"
             /\ sent[p][i].reply[2] \in Elems(result[p].value)
             /\ sent[p][i].reply[3] \in Elems(result[p].value)
             /\ Len(sent[p]) = 1
             /\ Count(ops[p], "submit") = 1
             /\ \A name \in AfterSubmit : ~Started(p, name)
             /\ polled[p] = <<>>
             /\ metadata[p] = <<>>

C4_Witness ==
    \E p \in Procs :
      /\ Len(sent[p]) = 1
      /\ sent[p][1].reply = <<"api_error", "422", "bad segment">>
      /\ Returned(p)

\* C5: the loop leaves on the first terminal status it fetches and on no
\* earlier one: while the invocation is in the loop no fetched status was
\* terminal; once it is past the loop the last fetched status is terminal and
\* the ones before it are not; and after a fetch that returned any other
\* status the invocation is sleeping or fetching again.
InLoop(p) == pc[p] \in {"sleep", "fetch"}
PastLoop(p) ==
    \/ pc[p] \in {"get_output", "download_result", "write_metadata"}
    \/ Started(p, "get_output")
    \/ Returned(p) /\ Started(p, "fetch")
C5_LoopExitsOnFirstTerminal ==
    \A p \in Procs :
      LET s == polled[p] IN
        /\ \A i \in 1..(Len(s) - 1) : s[i] \notin Terminal
        /\ InLoop(p) => \A i \in 1..Len(s) : s[i] \notin Terminal
        /\ PastLoop(p) => s # <<>> /\ s[Len(s)] \in Terminal
        /\ (s # <<>> /\ s[Len(s)] \notin Terminal)
             => \/ InLoop(p)
                \/ pc[p] = "raised" /\ result[p] = Raised("fetch")
        /\ (s # <<>> /\ s[Len(s)] \in Terminal) => ~InLoop(p)

C5_Witness ==
    \E p \in Procs :
      /\ pc[p] = "get_output"
      /\ polled[p] = <<"PROCESSING", "COMPLETED">>
      /\ Count(ops[p], "fetch") = 2

\* The request came with all three credentials and its video could be
\* fetched.
ValidRequest(p) ==
    /\ args[p].sync_api_key # ""
    /\ args[p].openai_api_key # ""
    /\ args[p].eleven_api_key # ""
    /\ PathTruthy(run[p].local_vid)

\* The result is the path of a video file that the result download created
\* at exactly that path.
ReturnsExistingVideo(p) ==
    /\ result[p].kind = "returned"
    /\ Started(p, "download_result")
    /\ run[p].outfile \in written[p]
    /\ run[p].outfile.ext = ".mp4"
    /\ result[p].value = PathStr(run[p].outfile)
    /\ result[p].ui # <<>> /\ result[p].ui[1] = "videos"

\* The result is one of the three failure strings.
ReturnsFailureString(p) ==
    /\ result[p].kind = "returned"
    /\ LET v == result[p].value IN
         \/ v = <<"Generated speech upload failed">>
         \/ Len(v) = 4 /\ v[1] = "Sync error - " /\ v[3] = ": "
         \/ Len(v) = 4 /\ v[1] = "Lipsync job " /\ v[3] = " failed: "

\* The stages whose failure is one of the defined error kinds (TransferError
\* for both downloads, ExtractionError, TranscriptionError, TranslationError,
\* SynthesisError), and the other calls that can raise.
DefinedErrorStages ==
    {"download", "download_result", "extract", "transcribe", "translate",
     "synthesize"}
OtherRaisingCalls == {"mkdir", "submit", "fetch", "get_output", "write_metadata"}

RaisedIn(p, stages) ==
    /\ pc[p] = "raised"
    /\ result[p].kind = "raised"
    /\ result[p].value[1] \in stages

\* C6 as stated: a valid request ends with the path of an existing video
\* file, with one of the three failure strings, or by raising one of the
\* defined error kinds.
C6_Original ==
    \A p \in Procs :
      (Ended(p) /\ ValidRequest(p))
        => \/ Returned(p) /\ ReturnsExistingVideo(p)
           \/ Returned(p) /\ ReturnsFailureString(p)
           \/ RaisedIn(p, DefinedErrorStages)

\* C6, amended: a valid request ends with the path of an existing video
\* file that the result download wrote, with one of the three failure
\* strings, or by raising the exception of the call that failed, which is
\* one of the defined error kinds or the raw exception of a directory
\* creation, a job submission, a status fetch or the metadata write.
C6_Outcomes ==
    \A p \in Procs :
      (Ended(p) /\ ValidRequest(p))
        => \/ Returned(p) /\ ReturnsExistingVideo(p)
           \/ Returned(p) /\ ReturnsFailureString(p)
           \/ RaisedIn(p, DefinedErrorStages \cup OtherRaisingCalls)

C6_Witness ==
    \E p \in Procs :
      /\ ValidRequest(p)
      /\ Returned(p)
      /\ ReturnsExistingVideo(p)
      /\ ~WantsMetadata(args[p])

\* C7 as stated, in the part a finite run refutes: once the provider has
\* reported COMPLETED or FAILED, the invocation ends by returning.
C7_Original ==
    \A p \in Procs :
      (Ended(p) /\ run[p].status \in Terminal) => Returned(p)

\* C7, amended: after the submission the invocation leaves the loop only by
\* fetching a terminal status or by a fetch raising; a fetch that returns any
\* other status is followed by another sleep, with no count or deadline; and
\* once a terminal status has been fetched the invocation eventually ends, by
\* returning or by raising.
C7_NoDeadline ==
    /\ [][\A p \in Procs :
            (InLoop(p) /\ ~InLoop(p)')
              => \/ run'[p].status \in Terminal
                 \/ result'[p] = Raised("fetch")]_vars
    /\ [][\A p \in Procs :
            (pc[p] = "fetch" /\ pc'[p] # "raised"
               /\ run'[p].status \notin Terminal)
              => pc'[p] = "sleep"]_vars
    /\ \A p \in Procs : (run[p].status \in Terminal) ~> Ended(p)

C7_Witness ==
    \E p \in Procs :
      /\ Returned(p)
      /\ polled[p] = <<"PENDING", "COMPLETED">>
      /\ Count(ops[p], "fetch") = MaxFetch
      /\ ReturnsExistingVideo(p)

\* C8: the segment window of every job submission is the pair (segment_start,
\* segment_end) that translate_video was called with, -1 included.
C8_SegmentsPassedThrough ==
    \A p \in Procs :
      \A i \in 1..Len(sent[p]) :
        sent[p][i].request.segments_secs =
            <<<<req[p].segment_start, req[p].segment_end>>>>

C8_Witness ==
    \E p \in Procs :
      /\ Len(sent[p]) = 1
      /\ req[p].segment_start = -1
      /\ req[p].segment_end = -1
      /\ sent[p][1].request.segments_secs = <<<<-1, -1>>>>

\* C9: the metadata file is written at most once, as the last operation,
\* after COMPLETED was fetched and the result was downloaded, and only when
\* a metadata path was given; without a path none is written and an
\* invocation whose result download went through returns the output path.
C9_MetadataOnceAtEnd ==
    \A p \in Procs :
      /\ Len(metadata[p]) <= 1
      /\ Count(ops[p], "write_metadata") <= 1
      /\ Started(p, "write_metadata")
           => /\ ops[p][Len(ops[p])].op = "write_metadata"
              /\ run[p].status = "COMPLETED"
              /\ Count(ops[p], "download_result") = 1
              /\ run[p].outfile \in written[p]
              /\ PathTruthy(req[p].output_json_path)
      /\ metadata[p] # <<>>
           => /\ Started(p, "write_metadata")
              /\ metadata[p][1].path = req[p].output_json_path
              /\ Returned(p)
      /\ ~PathTruthy(req[p].output_json_path)
           => /\ metadata[p] = <<>>
              /\ ~Started(p, "write_metadata")
              /\ (Started(p, "download_result") /\ pc[p] # "raised")
                   => Returned(p) /\ ReturnsExistingVideo(p)

C9_Witness ==
    \E p \in Procs :
      /\ Len(metadata[p]) = 1
      /\ Returned(p)
      /\ ops[p][Len(ops[p])].op = "write_metadata"

\* C10: a written metadata file carries the request's target_language,
\* source_language, voice_id, lipsync_model and sync_mode, the job id that
\* this invocation's submission returned, and as output_video_path the path
\* returned as the result.
C10_MetadataMatchesRequest ==
    \A p \in Procs :
      \A i \in 1..Len(metadata[p]) :
        LET m == metadata[p][i].content IN
          /\ m.target_language = args[p].target_language
          /\ m.source_language = req[p].source_language
          /\ m.voice_id = req[p].voice_id
          /\ m.lipsync_model = req[p].lipsync_model
          /\ m.sync_mode = req[p].sync_mode
          /\ Len(sent[p]) = 1
          /\ sent[p][1].reply = <<"ok", m.job_id>>
          /\ Returned(p)
          /\ result[p].kind = "returned"
          /\ m.output_video_path = result[p].value

C10_Witness ==
    \E p \in Procs :
      /\ Len(metadata[p]) = 1
      /\ metadata[p][1].content.voice_id = ""
      /\ metadata[p][1].content.lipsync_model = "lipsync-1.9.0-beta"
      /\ metadata[p][1].content.job_id = "job-2"

\* The video files the result download has written: the .mp4 files of this
\* invocation other than the local copy of the source video.
ResultFiles(p) ==
    {f \in written[p] :
        /\ f.ext = ".mp4"
        /\ f # DownloadPath(args[p].video_url, args[p].tmp_dir, EmptyPath)}

\* The directory the output video belongs in for the request at hand.
OutputDir(p) ==
    IF req[p].output_json_path # EmptyPath THEN req[p].output_json_path.dir
    ELSE TmpDir

\* C11: the result download writes the output video into the directory of
\* the metadata file when a metadata path was requested and into the working
\* temp directory otherwise, it writes nothing before it has started, and
\* the path returned as the result is exactly the one file it wrote.
C11_OutputPlacement ==
    \A p \in Procs :
      /\ ~Started(p, "download_result") => ResultFiles(p) = {}
      /\ \A f \in ResultFiles(p) : f.dir = OutputDir(p) /\ f.ext = ".mp4"
      /\ result[p].kind = "returned" /\ Started(p, "download_result") =>
            /\ Cardinality(ResultFiles(p)) = 1
            /\ \A f \in ResultFiles(p) : result[p].value = PathStr(f)

C11_Witness ==
    \E p \in Procs :
      /\ result[p].kind = "returned"
      /\ req[p].output_json_path = JsonPath
      /\ \E f \in ResultFiles(p) :
            f.dir = "out" /\ f.dir # TmpDir /\ result[p].value = PathStr(f)

\* The ways an upload fails: the local file cannot be opened, the transport
\* raises, the body is not JSON, the success flag is false or missing, the
\* files list is empty or missing, the first file has no url key.
UploadFailed(resp) ==
    \/ resp.kind \in {"open_error", "transport_error", "not_json"}
    \/ ~resp.has_success \/ ~resp.success
    \/ ~resp.has_files \/ resp.files = NoFiles
    \/ ~resp.files[1].has_url

\* C12: the upload step never raises; for every failure mode it returns the
\* "no URL" result, and whatever it returns other than that is the first
\* file's url of a JSON response with a true success flag and a non-empty
\* files list.
C12_UploadNeverRaises ==
    \A p \in Procs :
      LET resp == answers[p].upload IN
        resp.kind # "none" =>
          /\ ~RaisedIn(p, {"upload"})
          /\ writes[p].aud_url = [n |-> 1, by |-> {"upload"}]
          /\ UploadFailed(resp) => run[p].aud_url = NoneVal
          /\ run[p].aud_url # NoneVal =>
                /\ resp.kind = "json"
                /\ resp.has_success /\ resp.success
                /\ resp.has_files /\ Len(resp.files) > 0
                /\ run[p].aud_url = resp.files[1].url

C12_Witness ==
    \E p \in Procs :
      LET resp == answers[p].upload IN
        /\ resp.kind = "json" /\ resp.has_success /\ resp.success
        /\ resp.has_files /\ Len(resp.files) = 1
        /\ ~resp.files[1].has_url
        /\ run[p].aud_url = NoneVal
        /\ result[p] = Failure(UploadFailedMessage)

\* The source download failures that happen before the response body is
\* streamed: a malformed URL, a connection error or timeout, a non-2xx
\* response.
FailedBeforeBody == {"invalid_url", "connect_error", "http_error"}

\* C13: when the source download fails, the failure leaves translate_video,
\* the download is the only operation of the invocation (nothing is
\* extracted, transcribed, translated, synthesized, uploaded, submitted,
\* polled or written as metadata), and when it failed before the body was
\* streamed the invocation has created no file.
C13_DownloadFailurePropagates ==
    \A p \in Procs :
      answers[p].download \notin {"none", "ok"} =>
        /\ RaisedIn(p, {"download"})
        /\ ops[p] = <<Op("download", "")>>
        /\ run[p] = NoRun
        /\ sent[p] = <<>> /\ polled[p] = <<>> /\ metadata[p] = <<>>
        /\ answers[p].upload = NoResponse
        /\ answers[p].download \in FailedBeforeBody => written[p] = {}

C13_Witness ==
    \E p \in Procs :
      /\ answers[p].download = "http_error"
      /\ args[p].video_url = SourceUrl
      /\ pc[p] = "raised"
      /\ written[p] = {}

\* C14: of two runs that share the temp directory, no file path written by
\* one (local source video, extracted waveform, synthesized audio, output
\* video) is also written by the other.
C14_NoSharedPaths ==
    \A p, q \in Procs : p # q => written[p] \cap written[q] = {}

\* The credential an operation of invocation p is to be made with.
OwnKey(p, name) ==
    CASE name \in {"transcribe", "translate"} -> args[p].openai_api_key
      [] name = "synthesize" -> args[p].eleven_api_key
      [] name \in {"submit", "fetch", "get_output"} -> args[p].sync_api_key
      [] OTHER -> ""

\* C15: under every interleaving of two invocations with different
\* credentials, each transcription, translation, synthesis and lipsync call
\* of an invocation is made with that invocation's own credential.
C15_OwnCredentials ==
    \A p \in Procs :
      \A i \in 1..Len(ops[p]) : ops[p][i].key = OwnKey(p, ops[p][i].op)

\* The operations that go over the network.
NetworkOps ==
    {"download", "transcribe", "translate", "synthesize", "upload", "submit",
     "fetch", "get_output", "download_result"}

\* C16: an invocation attempts a network call only when all three
\* credentials of its bundle (lipsync, transcription/translation, speech
\* synthesis) are non-empty.
C16_CredentialsBeforeNetwork ==
    \A p \in Procs :
      (\E i \in 1..Len(ops[p]) : ops[p][i].op \in NetworkOps) =>
        /\ Truthy(args[p].sync_api_key)
        /\ Truthy(args[p].openai_api_key)
        /\ Truthy(args[p].eleven_api_key)

\* C17: translate_video leaves every field of the bundle it was given as it
\* was: the step that enters translate_video does not change the bundle.
C17_BundleUnchanged ==
    [][\A p \in Procs :
         pc[p] = "idle" /\ pc'[p] \in {"download", "raised"} =>
           args'[p] = args[p]]_vars

\* C18: no invocation ends, by returning or by raising, with the clip that
\* _extract_audio opened still open.
C18_ClipClosedOnEveryExit ==
    \A p \in Procs : Ended(p) => ~clip_open[p]

\* The step that assigns each local variable of translate_video other than
\* the job status.
Writer ==
    [local_vid |-> "download", extracted_wav |-> "extract",
     audio_path |-> "tts", transcription |-> "transcribe",
     translated_text |-> "translate", generated_audio_mp3 |-> "synthesize",
     aud_url |-> "upload", job_id |-> "submit", output_url |-> "get_output",
     outfile |-> "get_output"]

\* The local variables the step at each position uses.
Reads(at) ==
    CASE at = "extract" -> {"local_vid"}
      [] at = "tts" -> {"extracted_wav"}
      [] at = "transcribe" -> {"audio_path"}
      [] at = "translate" -> {"transcription"}
      [] at = "synthesize" -> {"translated_text"}
      [] at = "upload" -> {"generated_audio_mp3"}
      [] at = "submit" -> {"aud_url"}
      [] at \in {"sleep", "fetch", "get_output"} -> {"job_id", "status"}
      [] at = "download_result" -> {"output_url", "outfile"}
      [] at = "write_metadata" -> {"translated_text", "outfile", "job_id"}
      [] OTHER -> {}

\* No variable is used at a position the invocation is at before it has
\* been assigned.
NoReadBeforeWrite ==
    \A p \in Procs : \A f \in Reads(pc[p]) : writes[p][f].n >= 1

\* C19 as stated: every field of the run state, the job status included, is
\* written at most once and by one stage, exactly once when the invocation
\* returns its output video, and is not read before it is written.
C19_Original ==
    /\ NoReadBeforeWrite
    /\ \A p \in Procs :
         \A f \in DOMAIN writes[p] :
           /\ writes[p][f].n <= 1
           /\ Cardinality(writes[p][f].by) <= 1
           /\ ReturnsExistingVideo(p) => writes[p][f].n = 1

\* C19: every field of the run state other than the job status is written
\* at most once, by its one stage, and exactly once when the invocation
\* returns its output video; the job status is written once (unset) on
\* submission and once more by every fetch of the polling loop; no field is
\* read before it is written.
C19_SingleWriterButStatus ==
    /\ NoReadBeforeWrite
    /\ \A p \in Procs :
         /\ \A f \in DOMAIN Writer :
              /\ writes[p][f].n <= 1
              /\ writes[p][f].by \subseteq {Writer[f]}
              /\ writes[p][f].n = Cardinality(writes[p][f].by)
              /\ ReturnsExistingVideo(p) => writes[p][f].n = 1
         /\ writes[p].status.by \subseteq {"submit", "fetch"}
         /\ writes[p].status.n =
              IF writes[p].job_id.n = 0 THEN 0 ELSE 1 + Len(polled[p])
         /\ ReturnsExistingVideo(p) => writes[p].status.n >= 2

C19_Witness ==
    \E p \in Procs :
      /\ ReturnsExistingVideo(p)
      /\ polled[p] = <<"PROCESSING", "COMPLETED">>
      /\ writes[p].status = [n |-> 3, by |-> {"submit", "fetch"}]
      /\ writes[p].outfile = [n |-> 1, by |-> {"get_output"}]

\* The positions of the operations of a name in an invocation's history.
Places(p, name) == {i \in 1..Len(ops[p]) : ops[p][i].op = name}

\* The invocation ended by reporting its job as failed.
EndedInFailed(p) ==
    /\ Returned(p)
    /\ run[p].status \in Terminal \ {"COMPLETED"}
    /\ result[p] = Failure(JobFailedMessage(run[p].job_id, run[p].status))

\* C20: the output URL comes from one job fetch made after the polling loop
\* has ended on COMPLETED and after every fetch of the loop, not from the
\* loop's fetches; an invocation that returns its output video has made
\* exactly one such fetch besides the loop's, one that ends in FAILED has
\* made none; and once that fetch has answered the result download follows
\* whatever status the fetch reported.
C20_ExtraFetchForOutput ==
    \A p \in Procs :
      /\ Count(ops[p], "get_output") <= 1
      /\ \A i \in Places(p, "get_output") :
            /\ Places(p, "fetch") # {}
            /\ \A j \in Places(p, "fetch") : j < i
            /\ polled[p][Len(polled[p])] = "COMPLETED"
            /\ run[p].status = "COMPLETED"
      /\ ~Started(p, "get_output") =>
            run[p].output_url = NoUrl /\ writes[p].output_url.n = 0
      /\ writes[p].output_url.by \subseteq {"get_output"}
      /\ Started(p, "download_result") => Count(ops[p], "get_output") = 1
      /\ ReturnsExistingVideo(p) => Count(ops[p], "get_output") = 1
      /\ EndedInFailed(p) => Count(ops[p], "get_output") = 0
      /\ writes[p].outfile.n = 1 =>
            /\ answers[p].output_status \in OutputStatuses
            /\ pc[p] = "download_result" \/ Started(p, "download_result")

C20_Witness ==
    \E p \in Procs :
      /\ ReturnsExistingVideo(p)
      /\ Count(ops[p], "fetch") = 2
      /\ Count(ops[p], "get_output") = 1
      /\ answers[p].output_status = "PROCESSING"
      /\ run[p].output_url = OutputUrl

====
